---- MODULE Spec2Model ----
(* Model of the rps prompt: the segment contract of the four segment       *)
(* variants (git.rs, path.rs, jobs.rs, status.rs), the test segment of     *)
(* main.rs, layout_segments of main.rs as a step machine, and the output   *)
(* main writes once the layout is known.                                   *)
(* Text is a sequence of grapheme clusters, one string per cluster, so     *)
(* that Len(text) is text.graphemes(true).count().                         *)
EXTENDS Integers, Sequences, FiniteSets, TLC

VARIABLES context, segments, term_width, min_whitespace, layout,
          prompt_width, shrink_idx, pc, line_type, trace, probe,
          rendered, emit_idx, stdout

vars == <<context, segments, term_width, min_whitespace, layout,
          prompt_width, shrink_idx, pc, line_type, trace, probe,
          rendered, emit_idx, stdout>>

-----------------------------------------------------------------------------
(* Bounds of the model *)

MaxBranchLen == 9
MaxJobs == 11
MaxPipeLen == 3
MaxPathComponents == 2
MaxComponentLen == 3
MaxSize == 23
MaxTermWidth == 58
MaxTestSegments == 2
MaxPipeChars == 5

-----------------------------------------------------------------------------
(* Program constants *)

MIN_WHITESPACE == 40
MIN_TEST_SEGMENT_SIZE == 5
MIN_PATH_SIZE == 6
MIN_BRANCH_TEXT == 4

SEGMENT_SEPARATOR == "E0B0"
PATH_SEPARATOR == "E0B1"
UNSTAGED_CHANGES_SYMBOL == "25CF"
STAGED_CHANGES_SYMBOL == "271A"
CONFLICT_SYMBOL == "26A0"
GIT_SYMBOL == "E0A0"

None == [kind |-> "None"]

Some(v) == [kind |-> "Some", value |-> v]

\* no call on the segment has been made yet
NoProbe == [op |-> "none"]

-----------------------------------------------------------------------------
(* Helpers standing for the Rust standard library *)

Min(a, b) == IF a <= b THEN a ELSE b

saturating_sub(a, b) == IF a >= b THEN a - b ELSE 0

RECURSIVE SumSeq(_)
SumSeq(s) == IF s = <<>> THEN 0 ELSE Head(s) + SumSeq(Tail(s))

Reverse(s) == [i \in 1..Len(s) |-> s[Len(s) + 1 - i]]

Take(s, n) == SubSeq(s, 1, Min(n, Len(s)))

RECURSIVE Flatten(_)
Flatten(ss) == IF ss = <<>> THEN <<>> ELSE Head(ss) \o Flatten(Tail(ss))

\* Iterator::intersperse / slice::join: sep between consecutive items
RECURSIVE Join(_, _)
Join(ss, sep) ==
    IF ss = <<>> THEN <<>>
    ELSE IF Len(ss) = 1 THEN Head(ss)
    ELSE Head(ss) \o sep \o Join(Tail(ss), sep)

\* format!("{}", n) for a usize: the decimal digits, most significant first
DigitChars == <<"0", "1", "2", "3", "4", "5", "6", "7", "8", "9">>

RECURSIVE FormatUsize(_)
FormatUsize(n) ==
    IF n < 10 THEN <<DigitChars[n + 1]>>
    ELSE FormatUsize(n \div 10) \o <<DigitChars[(n % 10) + 1]>>

\* Iterator::max_by_key over indices 1..Len(keys): the index of the maximum,
\* the last one when several are equally maximum, 0 (None) on an empty list
MaxByKeyFirst(keys) ==
    IF keys = <<>> THEN 0
    ELSE CHOOSE i \in 1..Len(keys) :
            /\ \A j \in 1..Len(keys) : keys[j] <= keys[i]
            /\ \A j \in 1..(i - 1) : keys[j] < keys[i]

MaxByKey(keys) ==
    IF keys = <<>> THEN 0
    ELSE CHOOSE i \in 1..Len(keys) :
            /\ \A j \in 1..Len(keys) : keys[j] <= keys[i]
            /\ \A j \in (i + 1)..Len(keys) : keys[j] < keys[i]

-----------------------------------------------------------------------------
(* colors.rs: the fg code of a color, as the graphemes of "\x1b[{}m" *)

ColorFg(c) ==
    CASE c = "BLACK" -> <<"3", "0">>
      [] c = "RED" -> <<"3", "1">>
      [] c = "GREEN" -> <<"3", "2">>
      [] c = "YELLOW" -> <<"3", "3">>
      [] c = "BLUE" -> <<"3", "4">>
      [] OTHER -> <<"3", "9">>

\* the bg code of a color
ColorBg(c) ==
    CASE c = "BLACK" -> <<"4", "0">>
      [] c = "RED" -> <<"4", "1">>
      [] c = "GREEN" -> <<"4", "2">>
      [] c = "YELLOW" -> <<"4", "3">>
      [] c = "BLUE" -> <<"4", "4">>
      [] OTHER -> <<"4", "9">>

-----------------------------------------------------------------------------
(* main.rs tests: TestSegment *)

TestSegment(width) == [kind |-> "Test", width |-> width]

TestSegment_get_base_width(self, shrink) ==
    CASE shrink = "Unconstrained" -> self.width
      [] shrink = "ShrinkComfortable" -> MIN_TEST_SEGMENT_SIZE
      [] shrink = "ShrinkBeyondMin" -> 1

TestSegment_get_actual_width_no_snap(self, max_size) == max_size

TestSegment_get_actual_width_when_under(self, max_size) ==
    IF max_size >= MIN_TEST_SEGMENT_SIZE THEN max_size ELSE 1

-----------------------------------------------------------------------------
(* jobs.rs *)

JobsSegment_new(ctx) ==
    IF ctx.jobs = 0 THEN None ELSE [kind |-> "Jobs", jobs |-> ctx.jobs]

JobsSegment_get_unconstrained_size(self) == Len(FormatUsize(self.jobs)) + 4

JobsSegment_get_base_width(self, shrink) ==
    CASE shrink = "Unconstrained" ->
            IF self.jobs = 1 THEN 3 ELSE JobsSegment_get_unconstrained_size(self)
      [] shrink = "ShrinkComfortable" -> 3
      [] shrink = "ShrinkBeyondMin" -> 0

JobsSegment_get_actual_width_low_threshold(self, max_size) ==
    IF max_size >= JobsSegment_get_unconstrained_size(self)
    THEN JobsSegment_get_unconstrained_size(self) + 2
    ELSE IF max_size >= 3 THEN 3 ELSE 0

JobsSegment_get_actual_width_when_under(self, max_size) ==
    IF max_size >= JobsSegment_get_unconstrained_size(self) + 2
    THEN JobsSegment_get_unconstrained_size(self) + 2
    ELSE IF max_size >= 3 THEN 3 ELSE 0

JobsSegment_render_at_size(self, max_size) ==
    LET text ==
            IF max_size >= JobsSegment_get_unconstrained_size(self)
            THEN IF self.jobs = 1
                 THEN <<" ", "2699", " ">>
                 ELSE <<" ">> \o FormatUsize(self.jobs) \o <<" ", "2699", " ">>
            ELSE IF max_size >= 3 THEN <<" ", "2699", " ">> ELSE <<>>
    IN [text |-> text, bg_color |-> "BLACK", fg_color |-> "YELLOW"]

-----------------------------------------------------------------------------
(* status.rs *)

IsAsciiWhitespace(c) == c \in {" ", "\t", "\n", "\r", "\f"}

\* str::split_ascii_whitespace: the maximal runs of non-whitespace characters
RECURSIVE SplitFrom(_, _)
SplitFrom(chars, word) ==
    IF chars = <<>> THEN (IF word = <<>> THEN <<>> ELSE <<word>>)
    ELSE IF IsAsciiWhitespace(Head(chars))
         THEN (IF word = <<>> THEN <<>> ELSE <<word>>) \o SplitFrom(Tail(chars), <<>>)
         ELSE SplitFrom(Tail(chars), Append(word, Head(chars)))

split_ascii_whitespace(chars) == SplitFrom(chars, <<>>)

StatusSegment_new_any_ok(ctx) ==
    IF ctx.pipestatus = None THEN None
    ELSE LET statuses == split_ascii_whitespace(ctx.pipestatus.value)
             any_ok == \E i \in 1..Len(statuses) : statuses[i] = <<"0">>
         IN IF any_ok THEN None
            ELSE [kind |-> "Status",
                  status |-> [i \in 1..Len(statuses) |->
                                IF statuses[i] = <<"0">> THEN "Ok" ELSE "Failed"]]

StatusSegment_new(ctx) ==
    IF ctx.pipestatus = None THEN None
    ELSE LET statuses == split_ascii_whitespace(ctx.pipestatus.value)
             all_ok == \A i \in 1..Len(statuses) : statuses[i] = <<"0">>
         IN IF all_ok THEN None
            ELSE [kind |-> "Status",
                  status |-> [i \in 1..Len(statuses) |->
                                IF statuses[i] = <<"0">> THEN "Ok" ELSE "Failed"]]

StatusSegment_get_unconstrained_size(self) == Len(self.status) * 2 + 1

SUCCESS_SYMBOL == <<"ESC", "[">> \o ColorFg("GREEN") \o <<"m", "2713">>
FAILURE_SYMBOL == <<"ESC", "[">> \o ColorFg("RED") \o <<"m", "2718">>

render_status(status) == IF status = "Ok" THEN SUCCESS_SYMBOL ELSE FAILURE_SYMBOL

StatusSegment_get_base_width(self, shrink) ==
    CASE shrink = "Unconstrained" -> StatusSegment_get_unconstrained_size(self)
      [] shrink = "ShrinkComfortable" -> 3
      [] shrink = "ShrinkBeyondMin" -> 0

StatusSegment_get_actual_width_when_under(self, max_size) ==
    IF max_size >= StatusSegment_get_unconstrained_size(self)
    THEN StatusSegment_get_unconstrained_size(self)
    ELSE IF max_size >= 3 THEN 3 ELSE 0

StatusSegment_render_at_size(self, max_size) ==
    LET text ==
            IF max_size >= StatusSegment_get_unconstrained_size(self)
            THEN Join([i \in 1..Len(self.status) |-> render_status(self.status[i])],
                      <<" ">>)
            ELSE IF max_size >= 3 THEN render_status(self.status[1]) ELSE <<>>
    IN [text |-> <<" ">> \o text \o <<" ">>,
        bg_color |-> "BLACK", fg_color |-> "BLACK"]

-----------------------------------------------------------------------------
(* path.rs *)

calculate_preferred_size_no_padding(components) ==
    SumSeq([i \in 1..Len(components) |-> Len(components[i]) + 3])

calculate_preferred_size(components) ==
    SumSeq([i \in 1..Len(components) |-> Len(components[i]) + 3]) + 3

PathSegment_new_from_path(path_type, components) ==
    [kind |-> "Path", path_segments |-> components, path_type |-> path_type,
     preferred_width |-> calculate_preferred_size(components)]

PathSegment_new(ctx) ==
    IF ctx.path = None THEN None
    ELSE PathSegment_new_from_path(ctx.path.path_type, ctx.path.components)

PathSegment_get_base_width(self, shrink) ==
    CASE shrink = "Unconstrained" -> self.preferred_width
      [] shrink = "ShrinkComfortable" -> MIN_PATH_SIZE
      [] shrink = "ShrinkBeyondMin" -> 1

PathSegment_get_actual_width_keeps_preferred(self, max_size) ==
    IF max_size >= self.preferred_width THEN self.preferred_width
    ELSE IF max_size >= MIN_PATH_SIZE THEN max_size ELSE self.preferred_width

PathSegment_get_actual_width_when_under(self, max_size) ==
    IF max_size >= self.preferred_width THEN self.preferred_width
    ELSE IF max_size >= MIN_PATH_SIZE THEN max_size ELSE 1

\* The 'outer loop of render_at_size: pending is the graphemes still to be
\* visited (last component first, each reversed and followed by the reversed
\* separator), builder the string_builder, current_size its counter.
RECURSIVE PathPushLoop(_, _, _, _)
PathPushLoop(pending, builder, current_size, max_size) ==
    IF pending = <<>> THEN builder
    ELSE LET pushed == Append(builder, Head(pending))
         IN IF (current_size + 1) + 4 >= max_size
            THEN pushed
            ELSE PathPushLoop(Tail(pending), pushed, current_size + 1, max_size)

PathSegment_render_at_size(self, max_size) ==
    LET separator == <<" ", PATH_SEPARATOR, " ">>
        prefix_char == IF self.path_type = "RelativeToHome" THEN "~" ELSE "/"
        n == Len(self.path_segments)
        pending == Flatten([i \in 1..n |->
                      Reverse(self.path_segments[n + 1 - i]) \o Reverse(separator)])
        text ==
            IF max_size >= self.preferred_width
            THEN IF self.path_segments = <<>>
                 THEN <<" ", prefix_char, " ">>
                 ELSE <<" ", prefix_char>> \o separator
                        \o Join(self.path_segments, separator) \o <<" ">>
            ELSE IF max_size >= MIN_PATH_SIZE
                 THEN <<" ", ".", ".", ".">>
                        \o Reverse(PathPushLoop(pending, <<" ">>, 1, max_size))
                 ELSE <<" ">>
    IN [text |-> text, bg_color |-> "BLUE", fg_color |-> "BLACK"]

-----------------------------------------------------------------------------
(* git.rs *)

GitStatus_Clean ==
    [tag |-> "Clean", staged |-> FALSE, unstaged |-> FALSE, conflicted |-> FALSE]

GitStatus_UntrackedFiles ==
    [tag |-> "UntrackedFiles", staged |-> FALSE, unstaged |-> FALSE,
     conflicted |-> FALSE]

GitStatus_Changes(staged, unstaged, conflicted) ==
    [tag |-> "Changes", staged |-> staged, unstaged |-> unstaged,
     conflicted |-> conflicted]

BoolAsUsize(b) == IF b THEN 1 ELSE 0

calculate_status_size_len_no_space(status, mode) ==
    (IF status.tag = "Changes"
     THEN BoolAsUsize(status.staged) + BoolAsUsize(status.unstaged)
            + BoolAsUsize(status.conflicted)
     ELSE 0)
    + (IF mode = "Clean" THEN 0 ELSE 3)

calculate_status_size_len(status, mode) ==
    LET status_symbol_len ==
            IF status.tag = "Changes"
            THEN BoolAsUsize(status.staged) + BoolAsUsize(status.unstaged)
                    + BoolAsUsize(status.conflicted)
            ELSE 0
        mode_symol_len == IF mode = "Clean" THEN 0 ELSE 3
    IN CASE status_symbol_len = 0 /\ mode_symol_len = 0 -> 0
         [] status_symbol_len # 0 /\ mode_symol_len = 0 -> status_symbol_len
         [] status_symbol_len = 0 /\ mode_symol_len # 0 -> mode_symol_len
         [] OTHER -> status_symbol_len + mode_symol_len + 1

\* The fields GitSegment::new and the tests of git.rs fill in
GitSegment(status, mode, branch_name) ==
    [kind |-> "Git", status |-> status, mode |-> mode,
     status_str_len |-> calculate_status_size_len(status, mode),
     branch_name |-> branch_name, branch_name_len |-> Len(branch_name)]

GitSegment_new(ctx) ==
    IF ctx.path = None \/ ctx.repo = None THEN None
    ELSE GitSegment(ctx.repo.status, ctx.repo.mode, ctx.repo.branch_name)

GitSegment_get_unconstrained_total_len(self) ==
    LET size == self.branch_name_len + 4
    IN IF self.status_str_len # 0 THEN size + self.status_str_len + 1 ELSE size

GitSegment_get_min_len_with_branch_name(self) ==
    LET size == Min(self.branch_name_len, MIN_BRANCH_TEXT + 3) + 4
    IN IF self.status_str_len # 0 THEN size + self.status_str_len + 1 ELSE size

GitSegment_render_status_symbols(self) ==
    LET s == self.status
        symbols ==
            IF s.tag = "Changes"
            THEN (IF s.staged \/ s.unstaged \/ s.conflicted THEN <<" ">> ELSE <<>>)
                 \o (IF s.unstaged THEN <<UNSTAGED_CHANGES_SYMBOL>> ELSE <<>>)
                 \o (IF s.staged THEN <<STAGED_CHANGES_SYMBOL>> ELSE <<>>)
                 \o (IF s.conflicted THEN <<CONFLICT_SYMBOL>> ELSE <<>>)
            ELSE <<>>
        mode_str ==
            CASE self.mode = "Clean" -> <<>>
              [] self.mode = "Bisect" -> <<" ", "<", "B", ">">>
              [] self.mode = "Merge" -> <<" ", ">", "M", "<">>
              [] self.mode = "Rebase" -> <<" ", ">", "R", ">">>
              [] self.mode = "Cherrypick" -> <<" ", ">", "C", ">">>
    IN symbols \o mode_str

GitSegment_get_base_width(self, shrink) ==
    CASE shrink = "Unconstrained" -> GitSegment_get_unconstrained_total_len(self)
      [] shrink = "ShrinkComfortable" -> GitSegment_get_min_len_with_branch_name(self)
      [] shrink = "ShrinkBeyondMin" -> 0

GitSegment_get_actual_width_when_under(self, max_size) ==
    IF max_size >= GitSegment_get_min_len_with_branch_name(self)
    THEN Min(max_size, GitSegment_get_unconstrained_total_len(self))
    ELSE IF max_size >= GitSegment_get_min_len_with_branch_name(self)
    THEN max_size
    ELSE IF self.status_str_len # 0 /\ max_size >= self.status_str_len + 4
    THEN self.status_str_len + 4
    ELSE IF max_size >= 3 THEN 3 ELSE 0

GitSegment_render_at_size(self, max_size) ==
    LET text ==
            IF max_size >= GitSegment_get_unconstrained_total_len(self)
            THEN <<" ", GIT_SYMBOL, " ">> \o self.branch_name
                    \o GitSegment_render_status_symbols(self) \o <<" ">>
            ELSE IF max_size >= GitSegment_get_min_len_with_branch_name(self)
            THEN <<" ", GIT_SYMBOL, " ">>
                    \o Take(self.branch_name,
                            saturating_sub(max_size,
                                3 + 3 + 1
                                + (IF self.status_str_len = 0 THEN 0
                                   ELSE self.status_str_len + 1)))
                    \o <<".", ".", ".">>
                    \o GitSegment_render_status_symbols(self) \o <<" ">>
            ELSE IF max_size >= self.status_str_len + 4
            THEN <<" ", GIT_SYMBOL>> \o GitSegment_render_status_symbols(self)
                    \o <<" ">>
            ELSE IF max_size >= 3 THEN <<" ", GIT_SYMBOL, " ">> ELSE <<>>
    IN [text |-> text,
        bg_color |-> IF self.status.tag = "Clean" THEN "GREEN" ELSE "YELLOW",
        fg_color |-> "BLACK"]

-----------------------------------------------------------------------------
(* segments.rs: the PromptSegment trait, dispatched on the variant *)

get_base_width(self, shrink) ==
    CASE self.kind = "Test" -> TestSegment_get_base_width(self, shrink)
      [] self.kind = "Jobs" -> JobsSegment_get_base_width(self, shrink)
      [] self.kind = "Status" -> StatusSegment_get_base_width(self, shrink)
      [] self.kind = "Path" -> PathSegment_get_base_width(self, shrink)
      [] self.kind = "Git" -> GitSegment_get_base_width(self, shrink)

get_actual_width_when_under(self, max_size) ==
    CASE self.kind = "Test" -> TestSegment_get_actual_width_when_under(self, max_size)
      [] self.kind = "Jobs" -> JobsSegment_get_actual_width_when_under(self, max_size)
      [] self.kind = "Status" -> StatusSegment_get_actual_width_when_under(self, max_size)
      [] self.kind = "Path" -> PathSegment_get_actual_width_when_under(self, max_size)
      [] self.kind = "Git" -> GitSegment_get_actual_width_when_under(self, max_size)

\* TestSegment::render_at_size is todo!(): the tests never call it
render_at_size(self, max_size) ==
    CASE self.kind = "Jobs" -> JobsSegment_render_at_size(self, max_size)
      [] self.kind = "Status" -> StatusSegment_render_at_size(self, max_size)
      [] self.kind = "Path" -> PathSegment_render_at_size(self, max_size)
      [] self.kind = "Git" -> GitSegment_render_at_size(self, max_size)

ShrinkPriority == {"Unconstrained", "ShrinkComfortable", "ShrinkBeyondMin"}

-----------------------------------------------------------------------------
(* Inputs *)

\* A name of n graphemes, as in the tests' "1234567890"
Name(n) == [i \in 1..n |-> DigitChars[(i % 10) + 1]]

Bool == {TRUE, FALSE}

GitStatuses ==
    {GitStatus_Clean, GitStatus_UntrackedFiles}
        \cup {GitStatus_Changes(s, u, c) : s \in Bool, u \in Bool, c \in Bool}

GitStates == {"Clean", "Bisect", "Rebase", "Merge", "Cherrypick"}

PathTypes == {"RelativeToHome", "RelativeToRoot"}

SeqsUpTo(S, n) == UNION {[1..k -> S] : k \in 0..n}

ComponentLists ==
    SeqsUpTo({Name(k) : k \in 1..MaxComponentLen}, MaxPathComponents)

ExitStatusLists ==
    {st \in SeqsUpTo({"Ok", "Failed"}, MaxPipeLen) :
        \E i \in 1..Len(st) : st[i] = "Failed"}

\* Every segment value of the four variants within the bounds
SegmentUniverse ==
    {GitSegment(st, mode, Name(n)) :
        st \in GitStatuses, mode \in GitStates, n \in 1..MaxBranchLen}
    \cup {PathSegment_new_from_path(t, c) : t \in PathTypes, c \in ComponentLists}
    \cup {[kind |-> "Jobs", jobs |-> j] : j \in 1..MaxJobs}
    \cup {[kind |-> "Status", status |-> st] : st \in ExitStatusLists}

\* The segments the tests of main.rs build
TestSegmentUniverse == {TestSegment(w) : w \in {3, 10, 25, 30}}

\* The run-time context of main: --status, --jobs, the current directory and
\* what git2 finds there
PipeStatuses ==
    {None, Some(<<"0">>), Some(<<"1">>),
     Some(<<"0", " ", "1", "2", "7", " ", "0">>)}

JobCounts == {0, 1, 3}

Paths ==
    {None,
     [path_type |-> "RelativeToHome", components |-> <<>>],
     [path_type |-> "RelativeToHome", components |-> <<Name(10)>>],
     [path_type |-> "RelativeToRoot", components |-> <<Name(10), Name(4)>>]}

Repos ==
    {None,
     [status |-> GitStatus_Clean, mode |-> "Clean", branch_name |-> Name(4)],
     [status |-> GitStatus_Changes(TRUE, TRUE, FALSE), mode |-> "Clean",
      branch_name |-> Name(10)],
     [status |-> GitStatus_Changes(TRUE, TRUE, FALSE), mode |-> "Rebase",
      branch_name |-> Name(10)]}

Contexts ==
    [path : Paths, pipestatus : PipeStatuses, jobs : JobCounts, repo : Repos]

NoContext == [path |-> None, pipestatus |-> None, jobs |-> 0, repo |-> None]

\* main: the providers in their fixed order, the absent ones filtered out
MainSegments(ctx) ==
    LET provided == <<StatusSegment_new(ctx), JobsSegment_new(ctx),
                      PathSegment_new(ctx), GitSegment_new(ctx)>>
    IN SelectSeq(provided, LAMBDA x : x # None)

\* The segment lists of the tests of main.rs
TestWidths == {3, 10, 25, 30}

TestSegmentLists ==
    {[i \in 1..Len(ws) |-> TestSegment(ws[i])] :
        ws \in SeqsUpTo(TestWidths, MaxTestSegments) \ {<<>>}}

MinWhitespaceValues == {5, 10, MIN_WHITESPACE}

TermWidths == 0..MaxTermWidth

-----------------------------------------------------------------------------
(* main.rs: layout_segments *)

get_size_no_trailing(sizes) ==
    SumSeq([i \in 1..Len(sizes) |-> sizes[i] + 1])

get_size(sizes) ==
    SumSeq([i \in 1..Len(sizes) |-> sizes[i] + 1]) + 1

amount_can_shrink_any_tier(segment, current_size, shrink_level) ==
    saturating_sub(current_size, get_base_width(segment, "ShrinkBeyondMin"))

amount_can_shrink(segment, current_size, shrink_level) ==
    saturating_sub(current_size, get_base_width(segment, shrink_level))

HasHeadroomOrEqual(width, prompt, whitespace) ==
    saturating_sub(width, prompt) >= whitespace

\* the headroom test of line 70
HasHeadroom(width, prompt, whitespace) ==
    saturating_sub(width, prompt) > whitespace

WhileConditionOrEqual(prompt, width) == prompt >= width

\* the loop condition of line 78
WhileCondition(prompt, width) == prompt > width

ShrinkPrioritiesComfortableOnly == <<"ShrinkComfortable", "ShrinkComfortable">>

ShrinkPrioritiesReversed == <<"ShrinkBeyondMin", "ShrinkComfortable">>

\* the tiers of the for loop of line 74
ShrinkPriorities == <<"ShrinkComfortable", "ShrinkBeyondMin">>

NewRequestedSizeIgnoringDeficit(current_size, amount_to_shrink, can_shrink) ==
    saturating_sub(current_size, can_shrink)

NewRequestedSizeUnchanged(current_size, amount_to_shrink, can_shrink) ==
    current_size

\* new_requested_size of lines 88-90
NewRequestedSize(current_size, amount_to_shrink, can_shrink) ==
    saturating_sub(current_size, Min(amount_to_shrink, can_shrink))

Slacks(sizes, shrink_level) ==
    [i \in 1..Len(sizes) |-> amount_can_shrink(segments[i], sizes[i], shrink_level)]

\* to_shrink of lines 80-83, as an index into layout (0: None)
ToShrink == MaxByKey(Slacks(layout, ShrinkPriorities[shrink_idx]))

-----------------------------------------------------------------------------
(* State machine of one call of layout_segments *)

Init ==
    /\ \/ /\ context \in Contexts
          /\ segments = MainSegments(context)
       \/ /\ context = NoContext
          /\ segments \in TestSegmentLists
    /\ term_width \in TermWidths
    /\ min_whitespace \in MinWhitespaceValues
    /\ layout = <<>>
    /\ prompt_width = 0
    /\ shrink_idx = 0
    /\ pc = "layout_segments"
    /\ line_type = "None"
    /\ trace = <<>>
    /\ probe = NoProbe
    /\ rendered = <<>>
    /\ emit_idx = 0
    /\ stdout = <<>>

\* lines 61-72: the initial layout and the headroom test
LayoutStart ==
    /\ pc = "layout_segments"
    /\ LET sizes == [i \in 1..Len(segments) |->
                        get_base_width(segments[i], "Unconstrained")]
       IN /\ layout' = sizes
          /\ prompt_width' = get_size(sizes)
          /\ IF HasHeadroom(term_width, get_size(sizes), min_whitespace)
             THEN /\ line_type' = "SingleLine"
                  /\ pc' = "done"
                  /\ shrink_idx' = shrink_idx
             ELSE /\ line_type' = line_type
                  /\ pc' = "while"
                  /\ shrink_idx' = 1
    /\ UNCHANGED <<rendered, emit_idx, stdout, context, segments, term_width, min_whitespace, trace, probe>>

\* the for loop of line 74 moves to its next tier, or ends
NextTier ==
    IF shrink_idx < Len(ShrinkPriorities)
    THEN /\ shrink_idx' = shrink_idx + 1
         /\ pc' = "while"
    ELSE /\ shrink_idx' = shrink_idx
         /\ pc' = "return"

\* lines 78-95: one iteration of the while loop that shrinks a segment
ShrinkStep ==
    /\ pc = "while"
    /\ WhileCondition(prompt_width, term_width)
    /\ ToShrink # 0
    /\ LET shrink_priority == ShrinkPriorities[shrink_idx]
           amount_to_shrink == prompt_width - term_width
           to_shrink == ToShrink
           can_shrink == amount_can_shrink(segments[to_shrink], layout[to_shrink],
                                           shrink_priority)
           new_requested_size == NewRequestedSize(layout[to_shrink],
                                                  amount_to_shrink, can_shrink)
           new_actual_size == get_actual_width_when_under(segments[to_shrink],
                                                          new_requested_size)
       IN /\ can_shrink # 0
          /\ layout' = [layout EXCEPT ![to_shrink] = new_actual_size]
          /\ prompt_width' = get_size(layout')
          /\ trace' = Append(trace,
                [shrink_priority |-> shrink_priority, to_shrink |-> to_shrink,
                 before |-> layout, amount_to_shrink |-> amount_to_shrink,
                 amount_can_shrink |-> can_shrink,
                 new_requested_size |-> new_requested_size,
                 new_actual_size |-> new_actual_size])
    /\ UNCHANGED <<rendered, emit_idx, stdout, context, segments, term_width, min_whitespace, shrink_idx, pc,
                   line_type, probe>>

\* lines 85-87: no segment can shrink at this tier
BreakNoSlack ==
    /\ pc = "while"
    /\ WhileCondition(prompt_width, term_width)
    /\ ToShrink # 0
    /\ amount_can_shrink(segments[ToShrink], layout[ToShrink],
                         ShrinkPriorities[shrink_idx]) = 0
    /\ NextTier
    /\ UNCHANGED <<rendered, emit_idx, stdout, context, segments, term_width, min_whitespace, layout,
                   prompt_width, line_type, trace, probe>>

\* line 78: the prompt fits, the while loop of this tier ends
ExitWhile ==
    /\ pc = "while"
    /\ ~WhileCondition(prompt_width, term_width)
    /\ NextTier
    /\ UNCHANGED <<rendered, emit_idx, stdout, context, segments, term_width, min_whitespace, layout,
                   prompt_width, line_type, trace, probe>>

\* line 83: max_by_key of an empty layout is None, unwrap() panics
UnwrapPanic ==
    /\ pc = "while"
    /\ WhileCondition(prompt_width, term_width)
    /\ ToShrink = 0
    /\ pc' = "panic"
    /\ UNCHANGED <<rendered, emit_idx, stdout, context, segments, term_width, min_whitespace, layout,
                   prompt_width, shrink_idx, line_type, trace, probe>>

\* lines 99-103: the classification after both tiers
Return ==
    /\ pc = "return"
    /\ line_type' = IF prompt_width > term_width THEN "OverflowLine" ELSE "SplitLine"
    /\ pc' = "done"
    /\ UNCHANGED <<rendered, emit_idx, stdout, context, segments, term_width, min_whitespace, layout,
                   prompt_width, shrink_idx, trace, probe>>

-----------------------------------------------------------------------------
(* main.rs: the output main writes after layout_segments has returned.      *)
(* stdout is the sequence of the print! calls, each the graphemes it wrote. *)

\* lines 106-118: one print! of the fg code of fg and the bg code of bg
set_stdout_color(fg, bg) ==
    <<"ESC", "[">> \o ColorFg(fg) \o <<"m", "ESC", "[">> \o ColorBg(bg) \o <<"m">>

\* lines 120-123
reset_stdout_color == <<"ESC", "[", "0", "m">>

\* the tests call layout_segments on their own; main never builds a TestSegment
InMain == \A i \in 1..Len(segments) : segments[i].kind # "Test"

OverflowOutputWithNewline ==
    <<set_stdout_color("DEFAULT", "BLUE"), <<SEGMENT_SEPARATOR>>,
      reset_stdout_color, <<"\n">>>>

\* lines 191-193: what main prints on OverflowLine
OverflowOutput ==
    <<set_stdout_color("DEFAULT", "BLUE"), <<SEGMENT_SEPARATOR>>,
      reset_stdout_color>>

NextBgColorOfSelf(r, i) == r[i].bg_color

\* lines 205-207: the background of the next rendered segment, or DEFAULT
NextBgColor(r, i) == IF i + 1 <= Len(r) THEN r[i + 1].bg_color ELSE "DEFAULT"

LineEndOutputAlwaysSplit(line) ==
    <<reset_stdout_color,
      <<"\n">>, set_stdout_color("BLACK", "BLUE"), <<" ", "21B3", " ">>,
      set_stdout_color("BLUE", "DEFAULT"), <<SEGMENT_SEPARATOR>>,
      reset_stdout_color, <<" ">>>>

\* lines 212-226: the reset and the end of the line
LineEndOutput(line) ==
    <<reset_stdout_color>>
    \o (IF line = "SingleLine"
        THEN <<<<" ">>>>
        ELSE <<<<"\n">>, set_stdout_color("BLACK", "BLUE"), <<" ", "21B3", " ">>,
               set_stdout_color("BLUE", "DEFAULT"), <<SEGMENT_SEPARATOR>>,
               reset_stdout_color, <<" ">>>>)

\* lines 190-195: OverflowLine prints the glyph alone and returns
PrintOverflow ==
    /\ pc = "done"
    /\ InMain
    /\ line_type = "OverflowLine"
    /\ stdout' = stdout \o OverflowOutput
    /\ pc' = "exit"
    /\ UNCHANGED <<rendered, emit_idx, context, segments, term_width,
                   min_whitespace, layout, prompt_width, shrink_idx, line_type,
                   trace, probe>>

\* lines 197-200: every segment is rendered at its allocated width
RenderSegments ==
    /\ pc = "done"
    /\ InMain
    /\ line_type # "OverflowLine"
    /\ rendered' = [i \in 1..Len(layout) |-> render_at_size(segments[i], layout[i])]
    /\ emit_idx' = 1
    /\ pc' = "emit"
    /\ UNCHANGED <<stdout, context, segments, term_width, min_whitespace, layout,
                   prompt_width, shrink_idx, line_type, trace, probe>>

\* lines 202-210: one iteration of the loop over the rendered segments
EmitSegment ==
    /\ pc = "emit"
    /\ emit_idx <= Len(rendered)
    /\ LET segment == rendered[emit_idx]
           next_bg_color == NextBgColor(rendered, emit_idx)
       IN stdout' = stdout \o
             <<set_stdout_color(segment.fg_color, segment.bg_color),
               segment.text,
               set_stdout_color(segment.bg_color, next_bg_color),
               <<SEGMENT_SEPARATOR>>>>
    /\ emit_idx' = emit_idx + 1
    /\ UNCHANGED <<rendered, context, segments, term_width, min_whitespace,
                   layout, prompt_width, shrink_idx, pc, line_type, trace, probe>>

\* lines 212-228: after the last segment
PrintLineEnd ==
    /\ pc = "emit"
    /\ emit_idx > Len(rendered)
    /\ stdout' = stdout \o LineEndOutput(line_type)
    /\ pc' = "exit"
    /\ UNCHANGED <<rendered, emit_idx, context, segments, term_width,
                   min_whitespace, layout, prompt_width, shrink_idx, line_type,
                   trace, probe>>

Next ==
    \/ LayoutStart
    \/ ShrinkStep
    \/ BreakNoSlack
    \/ ExitWhile
    \/ UnwrapPanic
    \/ Return
    \/ PrintOverflow
    \/ RenderSegments
    \/ EmitSegment
    \/ PrintLineEnd

Spec == Init /\ [][Next]_vars

-----------------------------------------------------------------------------
(* State machine of calls on one segment, at any size *)

SegInit ==
    /\ context = NoContext
    /\ segments \in {<<s>> : s \in SegmentUniverse \cup TestSegmentUniverse}
    /\ term_width = 0
    /\ min_whitespace = MIN_WHITESPACE
    /\ layout = <<>>
    /\ prompt_width = 0
    /\ shrink_idx = 0
    /\ pc = "segment"
    /\ line_type = "None"
    /\ trace = <<>>
    /\ probe = NoProbe
    /\ rendered = <<>>
    /\ emit_idx = 0
    /\ stdout = <<>>

CallGetBaseWidth ==
    /\ pc = "segment"
    /\ probe' = [op |-> "get_base_width",
                 result |-> [t \in ShrinkPriority |-> get_base_width(segments[1], t)]]
    /\ UNCHANGED <<rendered, emit_idx, stdout, context, segments, term_width, min_whitespace, layout,
                   prompt_width, shrink_idx, pc, line_type, trace>>

CallGetActualWidthWhenUnder ==
    /\ pc = "segment"
    /\ \E max_size \in 0..MaxSize :
          probe' = [op |-> "get_actual_width_when_under", max_size |-> max_size,
                    result |-> get_actual_width_when_under(segments[1], max_size)]
    /\ UNCHANGED <<rendered, emit_idx, stdout, context, segments, term_width, min_whitespace, layout,
                   prompt_width, shrink_idx, pc, line_type, trace>>

\* TestSegment::render_at_size is todo!() and is never called
CallRenderAtSize ==
    /\ pc = "segment"
    /\ segments[1].kind # "Test"
    /\ \E max_size \in 0..MaxSize :
          probe' = [op |-> "render_at_size", max_size |-> max_size,
                    result |-> render_at_size(segments[1], max_size)]
    /\ UNCHANGED <<rendered, emit_idx, stdout, context, segments, term_width, min_whitespace, layout,
                   prompt_width, shrink_idx, pc, line_type, trace>>

SegNext ==
    \/ CallGetBaseWidth
    \/ CallGetActualWidthWhenUnder
    \/ CallRenderAtSize

SegSpec == SegInit /\ [][SegNext]_vars

-----------------------------------------------------------------------------
(* Quantities of the claims, computed from the inputs *)

BaseWidths(shrink) ==
    [i \in 1..Len(segments) |-> get_base_width(segments[i], shrink)]

\* sum of the widths plus one separator slot per segment plus one
TotalWidth(sizes) == SumSeq(sizes) + Len(sizes) + 1

UnconstrainedTotal == TotalWidth(BaseWidths("Unconstrained"))

FloorTotal == TotalWidth(BaseWidths("ShrinkBeyondMin"))

Returned == pc = "done"

-----------------------------------------------------------------------------
(* C1: whenever layout_segments returns SingleLine or SplitLine, the sum of *)
(* the allocated widths plus (number of segments + 1) is at most the        *)
(* terminal width.                                                          *)
C1_FitsTerminalWidth ==
    (Returned /\ line_type \in {"SingleLine", "SplitLine"})
        => SumSeq(layout) + (Len(layout) + 1) <= term_width

\* a SplitLine reached by shrinking two or more segments' prompt
C1_Witness ==
    /\ Returned
    /\ line_type = "SplitLine"
    /\ Len(segments) >= 2
    /\ trace # <<>>

-----------------------------------------------------------------------------
(* C2: for every segment variant and every width w, the number of grapheme  *)
(* clusters of render_at_size(w).text equals get_actual_width_when_under(w). *)
C2_RenderedWidthIsActualWidth ==
    probe.op = "render_at_size"
        => Len(probe.result.text)
              = get_actual_width_when_under(segments[1], probe.max_size)

-----------------------------------------------------------------------------
(* C3 as stated: in every shrink step the selected segment has the maximal  *)
(* slack at the current tier, and among segments of equal maximal slack the *)
(* earliest in the list is selected.                                        *)
C3_SelectsEarliestMaxSlack ==
    \A k \in 1..Len(trace) :
        LET e == trace[k]
            slack == Slacks(e.before, e.shrink_priority)
        IN /\ \A j \in 1..Len(slack) : slack[j] <= slack[e.to_shrink]
           /\ \A j \in 1..(e.to_shrink - 1) : slack[j] < slack[e.to_shrink]

(* C3 amended: in every shrink step the selected segment has the maximal    *)
(* slack at the current tier, and among segments of equal maximal slack the *)
(* last in the list is selected.                                            *)
C3_SelectsLastMaxSlack ==
    \A k \in 1..Len(trace) :
        LET e == trace[k]
            slack == Slacks(e.before, e.shrink_priority)
        IN /\ \A j \in 1..Len(slack) : slack[j] <= slack[e.to_shrink]
           /\ \A j \in (e.to_shrink + 1)..Len(slack) : slack[j] < slack[e.to_shrink]

\* a shrink step that chose among several segments of equal maximal slack
C3_Witness ==
    \E k \in 1..Len(trace) :
        LET e == trace[k]
            slack == Slacks(e.before, e.shrink_priority)
        IN \E j \in 1..Len(slack) :
              j # e.to_shrink /\ slack[j] = slack[e.to_shrink]

-----------------------------------------------------------------------------
(* C4: layout_segments returns SingleLine exactly when the terminal width   *)
(* minus the unconstrained total width is strictly greater than the         *)
(* headroom (not when it equals it), and on SingleLine every segment keeps  *)
(* its unconstrained base width.                                            *)
C4_SingleLineIffHeadroom ==
    Returned =>
        /\ (line_type = "SingleLine")
              <=> (term_width - UnconstrainedTotal > min_whitespace)
        /\ line_type = "SingleLine" => layout = BaseWidths("Unconstrained")

\* the terminal is exactly min_whitespace wider than the prompt
C4_Witness ==
    /\ Returned
    /\ segments # <<>>
    /\ term_width - UnconstrainedTotal = min_whitespace
    /\ line_type = "SplitLine"

-----------------------------------------------------------------------------
(* C5: if the unconstrained total width is at most the terminal width,      *)
(* every segment's allocated width stays its unconstrained base width, also *)
(* when the headroom test fails and the result is SplitLine.                *)
C5_NoShrinkWhenFits ==
    (pc \in {"while", "return", "done"} /\ UnconstrainedTotal <= term_width)
        => layout = BaseWidths("Unconstrained")

\* the prompt fits exactly, the headroom test failed
C5_Witness ==
    /\ Returned
    /\ line_type = "SplitLine"
    /\ segments # <<>>
    /\ UnconstrainedTotal = term_width
    /\ \E i \in 1..Len(segments) :
          amount_can_shrink(segments[i], layout[i], "ShrinkComfortable") > 0

-----------------------------------------------------------------------------
(* C6: for a non-empty segment list, layout_segments returns OverflowLine   *)
(* exactly when the sum of the ShrinkBeyondMin base widths plus N + 1       *)
(* exceeds the terminal width, and then every allocated width is the        *)
(* segment's ShrinkBeyondMin base width.                                    *)
C6_OverflowIffFloorTooWide ==
    (Returned /\ segments # <<>>) =>
        /\ (line_type = "OverflowLine") <=> (FloorTotal > term_width)
        /\ line_type = "OverflowLine" => layout = BaseWidths("ShrinkBeyondMin")

\* an overflow of two or more segments, each shrunk on the way
C6_Witness ==
    /\ Returned
    /\ line_type = "OverflowLine"
    /\ Len(segments) >= 2
    /\ Len(trace) >= 2

-----------------------------------------------------------------------------
(* Quantities of C7 and C8: the state the shrink loop starts from *)

Deficit == UnconstrainedTotal - term_width

ComfortableSlack == Slacks(BaseWidths("Unconstrained"), "ShrinkComfortable")

\* the segment of largest slack, the last one of them when several are equal
LargestSlack(slack) ==
    CHOOSE i \in 1..Len(slack) :
        /\ \A j \in 1..Len(slack) : slack[j] <= slack[i]
        /\ \A j \in (i + 1)..Len(slack) : slack[j] < slack[i]

Largest == LargestSlack(ComfortableSlack)

\* the slack left once the largest-slack segment is at its comfortable width
SlackAfterLargest == [ComfortableSlack EXCEPT ![Largest] = 0]

NextLargest == LargestSlack(SlackAfterLargest)

SnapsTo(i, size) == get_actual_width_when_under(segments[i], size) = size

-----------------------------------------------------------------------------
(* C7: when the prompt does not fit and the segment of largest              *)
(* ShrinkComfortable slack has slack at least the deficit and snaps to the  *)
(* requested width, exactly that segment is reduced by exactly the deficit, *)
(* the others keep their unconstrained widths, the total width is the       *)
(* terminal width and the result is SplitLine.                              *)
C7_Case ==
    /\ segments # <<>>
    /\ Deficit > 0
    /\ ComfortableSlack[Largest] >= Deficit
    /\ SnapsTo(Largest, BaseWidths("Unconstrained")[Largest] - Deficit)

\* C7: in that case exactly the largest-slack segment is reduced, by exactly
\* the deficit, the total width is the terminal width, the result SplitLine
C7_ShrinksOneByDeficit ==
    (Returned /\ C7_Case) =>
        /\ layout = [BaseWidths("Unconstrained") EXCEPT ![Largest] = @ - Deficit]
        /\ TotalWidth(layout) = term_width
        /\ line_type = "SplitLine"

\* scenario E: 25 and 30 in a terminal of 50 settle at 25 and 22
C7_Witness ==
    /\ Returned
    /\ C7_Case
    /\ segments = <<TestSegment(25), TestSegment(30)>>
    /\ term_width = 50
    /\ layout = <<25, 22>>

-----------------------------------------------------------------------------
(* C8 as stated: when the largest-slack segment's ShrinkComfortable slack   *)
(* is smaller than the deficit but the combined comfortable slack suffices, *)
(* the first step reduces that segment to its comfortable base width, the   *)
(* second reduces the next-largest-slack segment by exactly the remaining   *)
(* deficit, the final total width is the terminal width and the result is   *)
(* SplitLine.                                                               *)
C8_TwoSteps ==
    /\ Len(trace) >= 2
    /\ trace[1].to_shrink = Largest
    /\ trace[1].new_actual_size
          = get_base_width(segments[Largest], "ShrinkComfortable")
    /\ trace[2].to_shrink = NextLargest
    /\ trace[2].new_actual_size
          = trace[2].before[NextLargest] - (Deficit - ComfortableSlack[Largest])
    /\ TotalWidth(layout) = term_width
    /\ line_type = "SplitLine"

C8_Case ==
    /\ segments # <<>>
    /\ Deficit > 0
    /\ ComfortableSlack[Largest] < Deficit
    /\ SumSeq(ComfortableSlack) >= Deficit

\* C8 as stated: the two steps happen whenever the combined comfortable
\* slack covers the deficit
C8_CombinedSlackSuffices == (Returned /\ C8_Case) => C8_TwoSteps

(* C8 amended: when the largest-slack segment's ShrinkComfortable slack is  *)
(* smaller than the deficit but the next-largest-slack segment's slack      *)
(* covers the remaining deficit and that segment snaps to the requested     *)
(* width, the first step reduces the largest-slack segment to its           *)
(* comfortable base width, the second reduces the next-largest-slack        *)
(* segment by exactly the remaining deficit, the final total width is the   *)
(* terminal width and the result is SplitLine.                              *)
C8_AmendedCase ==
    /\ segments # <<>>
    /\ Deficit > 0
    /\ ComfortableSlack[Largest] < Deficit
    /\ SlackAfterLargest[NextLargest] >= Deficit - ComfortableSlack[Largest]
    /\ SnapsTo(NextLargest,
               BaseWidths("Unconstrained")[NextLargest]
                  - (Deficit - ComfortableSlack[Largest]))

\* C8 amended: the two steps happen whenever the next-largest-slack segment
\* covers the remaining deficit and snaps to the requested width
C8_NextLargestCoversRest == (Returned /\ C8_AmendedCase) => C8_TwoSteps

\* 25 and 30 in a terminal of 25 settle at 17 and 5
C8_Witness ==
    /\ Returned
    /\ C8_AmendedCase
    /\ segments = <<TestSegment(25), TestSegment(30)>>
    /\ term_width = 25
    /\ layout = <<17, 5>>

-----------------------------------------------------------------------------
(* Quantities of C9: the steps of the ShrinkBeyondMin tier *)

BeyondMinSteps == SelectSeq(trace, LAMBDA e : e.shrink_priority = "ShrinkBeyondMin")

\* every segment is at its comfortable base width when the ShrinkBeyondMin
\* tier starts, and the slack of the selected segment covers the deficit
C9_Case ==
    /\ BeyondMinSteps # <<>>
    /\ BeyondMinSteps[1].before = BaseWidths("ShrinkComfortable")
    /\ BeyondMinSteps[1].amount_can_shrink >= BeyondMinSteps[1].amount_to_shrink

C9_OneStepLastOfEqual(e) ==
    /\ Len(BeyondMinSteps) = 1
    /\ layout = [e.before EXCEPT ![e.to_shrink] = e.new_actual_size]
    /\ LET slack == Slacks(e.before, "ShrinkBeyondMin")
       IN \A j \in 1..Len(slack) :
             slack[j] = slack[e.to_shrink] => j <= e.to_shrink
    /\ line_type = "SplitLine"

\* the widest form of a Git segment that is narrower than its comfortable
\* width and fits the request: glyph and status, glyph only, or nothing
GitGlyphForm(self, requested) ==
    IF self.status_str_len # 0 /\ requested >= self.status_str_len + 4
    THEN self.status_str_len + 4
    ELSE IF requested >= 3 THEN 3 ELSE 0

(* C9 as stated: when all segments have reached their comfortable base      *)
(* width and a deficit remains that one segment's ShrinkBeyondMin shrink    *)
(* covers, exactly one segment is shrunk, to its floor, and among segments  *)
(* of equal slack it is the last in list order; the result is SplitLine.    *)
C9_ShrinksOneToFloor ==
    (Returned /\ C9_Case) =>
        LET e == BeyondMinSteps[1]
        IN /\ C9_OneStepLastOfEqual(e)
           /\ e.new_actual_size
                 = get_base_width(segments[e.to_shrink], "ShrinkBeyondMin")

(* C9 amended: as stated, except that a Git segment is shrunk to the widest *)
(* of its glyph forms that fits the requested width (glyph plus status,     *)
(* glyph only, or empty) instead of to its floor.                           *)
C9_ShrinksOneToFloorOrGlyph ==
    (Returned /\ C9_Case) =>
        LET e == BeyondMinSteps[1]
            seg == segments[e.to_shrink]
        IN /\ C9_OneStepLastOfEqual(e)
           /\ e.new_actual_size
                 = IF seg.kind = "Git"
                   THEN GitGlyphForm(seg, e.new_requested_size)
                   ELSE get_base_width(seg, "ShrinkBeyondMin")

\* 25 and 30 in a terminal of 10 with headroom 40 settle at 5 and 1
C9_Witness ==
    /\ Returned
    /\ C9_Case
    /\ segments = <<TestSegment(25), TestSegment(30)>>
    /\ term_width = 10
    /\ min_whitespace = 40
    /\ line_type = "SplitLine"
    /\ layout = <<5, 1>>

-----------------------------------------------------------------------------
(* C10: for every segment of the four variants, get_base_width is           *)
(* non-increasing along Unconstrained, ShrinkComfortable, ShrinkBeyondMin.  *)
C10_BaseWidthNonIncreasing ==
    (probe.op = "get_base_width" /\ segments[1].kind # "Test")
        => /\ probe.result["Unconstrained"] >= probe.result["ShrinkComfortable"]
           /\ probe.result["ShrinkComfortable"] >= probe.result["ShrinkBeyondMin"]

-----------------------------------------------------------------------------
(* C11: for every segment variant get_actual_width_when_under is monotonic  *)
(* non-decreasing: for all caps a <= b, the width under a is at most the    *)
(* width under b.                                                           *)
C11_ActualWidthMonotonic ==
    probe.op = "get_actual_width_when_under"
        => \A a \in 0..probe.max_size :
              get_actual_width_when_under(segments[1], a) <= probe.result

\* a Git segment asked at a cap where its width has grown over a smaller cap
C11_Witness ==
    /\ probe.op = "get_actual_width_when_under"
    /\ segments[1].kind = "Git"
    /\ probe.max_size < GitSegment_get_unconstrained_total_len(segments[1])
    /\ \E a \in 0..probe.max_size :
          /\ get_actual_width_when_under(segments[1], a) > 0
          /\ get_actual_width_when_under(segments[1], a) < probe.result

-----------------------------------------------------------------------------
(* C12: for every segment variant and every cap that is at least the        *)
(* segment's floor (its ShrinkBeyondMin base width), the width reported by  *)
(* get_actual_width_when_under(cap) is at most cap.                         *)
C12_ActualWidthAtMostCap ==
    (/\ probe.op = "get_actual_width_when_under"
     /\ probe.max_size >= get_base_width(segments[1], "ShrinkBeyondMin"))
        => probe.result <= probe.max_size

\* a Jobs segment asked at the size of its full form
C12_Witness ==
    /\ probe.op = "get_actual_width_when_under"
    /\ segments[1].kind = "Jobs"
    /\ probe.max_size = JobsSegment_get_unconstrained_size(segments[1])
    /\ probe.result < probe.max_size

-----------------------------------------------------------------------------
(* State machine of the segment providers JobsSegment::new and              *)
(* StatusSegment::new on any --jobs and --status arguments                  *)

PipeStatusUniverse ==
    {None} \cup {Some(chars) : chars \in SeqsUpTo({"0", "1", " "}, MaxPipeChars)}

NewInit ==
    /\ context \in [path : {None}, pipestatus : PipeStatusUniverse,
                    jobs : 0..MaxJobs, repo : {None}]
    /\ segments = <<>>
    /\ term_width = 0
    /\ min_whitespace = MIN_WHITESPACE
    /\ layout = <<>>
    /\ prompt_width = 0
    /\ shrink_idx = 0
    /\ pc = "providers"
    /\ line_type = "None"
    /\ trace = <<>>
    /\ probe = NoProbe
    /\ rendered = <<>>
    /\ emit_idx = 0
    /\ stdout = <<>>

CallJobsSegmentNew ==
    /\ pc = "providers"
    /\ probe' = [op |-> "JobsSegment::new", result |-> JobsSegment_new(context)]
    /\ UNCHANGED <<rendered, emit_idx, stdout, context, segments, term_width, min_whitespace, layout,
                   prompt_width, shrink_idx, pc, line_type, trace>>

CallStatusSegmentNew ==
    /\ pc = "providers"
    /\ probe' = [op |-> "StatusSegment::new", result |-> StatusSegment_new(context)]
    /\ UNCHANGED <<rendered, emit_idx, stdout, context, segments, term_width, min_whitespace, layout,
                   prompt_width, shrink_idx, pc, line_type, trace>>

NewNext ==
    \/ CallJobsSegmentNew
    \/ CallStatusSegmentNew

NewSpec == NewInit /\ [][NewNext]_vars

-----------------------------------------------------------------------------
(* Quantities of C13: the whitespace-separated entries of a string, as the  *)
(* maximal runs of non-whitespace characters in their order                 *)

EntryStarts(chars) ==
    {i \in 1..Len(chars) :
        /\ ~IsAsciiWhitespace(chars[i])
        /\ i = 1 \/ IsAsciiWhitespace(chars[i - 1])}

EntryEnd(chars, i) ==
    CHOOSE j \in i..Len(chars) :
        /\ \A k \in i..j : ~IsAsciiWhitespace(chars[k])
        /\ j = Len(chars) \/ IsAsciiWhitespace(chars[j + 1])

\* the k-th entry: the run whose start has k - 1 starts before it
Entry(chars, k) ==
    LET i == CHOOSE x \in EntryStarts(chars) :
                Cardinality({y \in EntryStarts(chars) : y < x}) = k - 1
    IN SubSeq(chars, i, EntryEnd(chars, i))

EntryCount(chars) == Cardinality(EntryStarts(chars))

-----------------------------------------------------------------------------
(* C13: JobsSegment::new yields no segment exactly when the job count is 0; *)
(* StatusSegment::new yields no segment exactly when no pipestatus was      *)
(* supplied or every whitespace-separated entry is "0"; otherwise the       *)
(* Status segment holds one entry per pipestatus entry in the same order,   *)
(* Ok for "0" and Failed for anything else.                                 *)
C13_ProvidersAbsentOrBuilt ==
    /\ probe.op = "JobsSegment::new"
          => (probe.result = None <=> context.jobs = 0)
    /\ probe.op = "StatusSegment::new"
          => LET supplied == context.pipestatus # None
                 chars == context.pipestatus.value
                 all_zero == \A k \in 1..EntryCount(chars) :
                                Entry(chars, k) = <<"0">>
             IN /\ probe.result = None <=> (~supplied \/ all_zero)
                /\ probe.result # None
                      => probe.result.status
                            = [k \in 1..EntryCount(chars) |->
                                 IF Entry(chars, k) = <<"0">> THEN "Ok"
                                 ELSE "Failed"]

\* a pipeline of three whose middle command failed
C13_Witness ==
    /\ probe.op = "StatusSegment::new"
    /\ context.pipestatus = Some(<<"0", " ", "1", " ", "0">>)
    /\ probe.result # None
    /\ probe.result.status = <<"Ok", "Failed", "Ok">>

-----------------------------------------------------------------------------
(* Quantities of C14 to C16: the stream of graphemes main has written so far *)

Stream == Flatten(stdout)

Exited == pc = "exit"

\* "\x1b[{}m" for a code given by its two digits
Escape(d1, d2) == <<"ESC", "[", d1, d2, "m">>

Reset == <<"ESC", "[", "0", "m">>

-----------------------------------------------------------------------------
(* C14: when the layout is OverflowLine, main renders no segment and writes *)
(* exactly one separator glyph in default foreground (39) on blue           *)
(* background (44) followed by a color reset, and nothing else.             *)
C14_OverflowPrintsGlyphOnly ==
    (Exited /\ line_type = "OverflowLine")
        => /\ rendered = <<>>
           /\ Stream = Escape("3", "9") \o Escape("4", "4")
                          \o <<SEGMENT_SEPARATOR>> \o Reset

\* the four segments of a full context do not fit at their floors
C14_Witness ==
    /\ Exited
    /\ line_type = "OverflowLine"
    /\ Len(segments) = 4
    /\ stdout # <<>>

-----------------------------------------------------------------------------
(* C15: after the last segment's separator main writes (after a color       *)
(* reset), for SingleLine, exactly one trailing space; for SplitLine, a     *)
(* line break, the continuation marker in black (30) on blue (44), a        *)
(* separator glyph in blue (34) on default (49), a reset and one trailing   *)
(* space; the continuation line is written for SplitLine only.              *)
C15_LineEnd ==
    (Exited /\ line_type # "OverflowLine")
        => LET after == SubSeq(stdout, 4 * Len(segments) + 1, Len(stdout))
           IN /\ line_type = "SingleLine"
                    => Flatten(after) = Reset \o <<" ">>
              /\ line_type = "SplitLine"
                    => Flatten(after)
                          = Reset \o <<"\n">>
                               \o Escape("3", "0") \o Escape("4", "4")
                               \o <<" ", "21B3", " ">>
                               \o Escape("3", "4") \o Escape("4", "9")
                               \o <<SEGMENT_SEPARATOR>> \o Reset \o <<" ">>
              /\ ("\n" \in {Stream[k] : k \in 1..Len(Stream)})
                    <=> line_type = "SplitLine"

\* a prompt of two or more segments that was shrunk and split
C15_Witness ==
    /\ Exited
    /\ line_type = "SplitLine"
    /\ Len(segments) >= 2
    /\ trace # <<>>

-----------------------------------------------------------------------------
(* C16: main writes the segments in list order, and after each segment's    *)
(* text exactly one separator glyph whose foreground is that segment's      *)
(* background color and whose background is the next segment's background   *)
(* color, or the default color after the last segment.                      *)
C16_SegmentsInOrderWithSeparators ==
    (pc \in {"emit", "exit"} /\ line_type # "OverflowLine")
        => LET n == IF Exited THEN Len(segments) ELSE emit_idx - 1
               r(i) == render_at_size(segments[i], layout[i])
           IN /\ Len(stdout) >= 4 * n
              /\ pc = "emit" => Len(stdout) = 4 * n
              /\ \A i \in 1..n :
                    /\ stdout[4 * i - 3] = set_stdout_color(r(i).fg_color, r(i).bg_color)
                    /\ stdout[4 * i - 2] = r(i).text
                    /\ stdout[4 * i - 1]
                          = set_stdout_color(r(i).bg_color,
                                IF i < Len(segments) THEN r(i + 1).bg_color
                                ELSE "DEFAULT")
                    /\ stdout[4 * i] = <<SEGMENT_SEPARATOR>>

\* all four segments written, the path (blue) followed by a git segment
C16_Witness ==
    /\ Exited
    /\ line_type # "OverflowLine"
    /\ Len(segments) = 4
    /\ rendered[3].bg_color # rendered[4].bg_color
    /\ rendered[4].bg_color # "DEFAULT"

-----------------------------------------------------------------------------
(* Quantities of C17 and C18 over the recorded shrink steps *)

\* min(base_width(Unconstrained), base_width(ShrinkComfortable)) of segment i
ComfortableFloor(i) ==
    Min(get_base_width(segments[i], "Unconstrained"),
        get_base_width(segments[i], "ShrinkComfortable"))

\* every segment of a layout is at most its base_width(ShrinkComfortable)
ComfortableExhausted(sizes) ==
    \A j \in 1..Len(sizes) :
        sizes[j] <= get_base_width(segments[j], "ShrinkComfortable")

\* the layout a recorded step leaves
After(e) == [e.before EXCEPT ![e.to_shrink] = e.new_actual_size]

\* the slack of segment i over both tiers: what the comfortable tier can take
\* from its unconstrained width, then what the beyond-min tier can take from
\* where the comfortable tier leaves it
SlackOverBothTiers(i) ==
    amount_can_shrink(segments[i], get_base_width(segments[i], "Unconstrained"),
                      "ShrinkComfortable")
    + amount_can_shrink(segments[i], ComfortableFloor(i), "ShrinkBeyondMin")

TotalSlack == SumSeq([i \in 1..Len(segments) |-> SlackOverBothTiers(i)])

(* C17: the ShrinkComfortable tier is exhausted before the ShrinkBeyondMin  *)
(* tier starts: a step takes a segment below min(base_width(Unconstrained), *)
(* base_width(ShrinkComfortable)) only when every segment's current width   *)
(* is at most its base_width(ShrinkComfortable), and no step of the         *)
(* comfortable tier leaves a segment below its comfortable base width.      *)
C17_ComfortableTierFirst ==
    \A k \in 1..Len(trace) :
        LET e == trace[k]
        IN /\ e.new_actual_size < ComfortableFloor(e.to_shrink)
                => ComfortableExhausted(e.before)
           /\ e.shrink_priority = "ShrinkComfortable"
                => e.new_actual_size
                      >= get_base_width(segments[e.to_shrink], "ShrinkComfortable")

\* scenario D: steps of the comfortable tier, then a step of the beyond-min
\* tier that takes the segment to its floor
C17_Witness ==
    /\ Returned
    /\ Len(trace) >= 2
    /\ trace[1].shrink_priority = "ShrinkComfortable"
    /\ trace[Len(trace)].shrink_priority = "ShrinkBeyondMin"
    /\ trace[Len(trace)].new_actual_size
          < ComfortableFloor(trace[Len(trace)].to_shrink)
    /\ line_type = "SplitLine"

-----------------------------------------------------------------------------
(* C18: layout_segments terminates for every non-empty segment list and     *)
(* every W and H: each shrink step strictly decreases the total prompt      *)
(* width (an iteration that finds zero slack leaves the loop instead), so   *)
(* the number of shrink steps is at most the sum of the segments' slack     *)
(* over both tiers.                                                         *)
C18_ShrinkStepsBounded ==
    segments # <<>>
        => /\ \A k \in 1..Len(trace) :
                 /\ trace[k].amount_can_shrink > 0
                 /\ get_size(After(trace[k])) < get_size(trace[k].before)
           /\ Len(trace) <= TotalSlack
           /\ pc # "panic"

\* a call over several real segments that returned after steps of both tiers
C18_Witness ==
    /\ Returned
    /\ Len(segments) >= 2
    /\ \A i \in 1..Len(segments) : segments[i].kind # "Test"
    /\ \E k \in 1..Len(trace) : trace[k].shrink_priority = "ShrinkComfortable"
    /\ \E k \in 1..Len(trace) : trace[k].shrink_priority = "ShrinkBeyondMin"

-----------------------------------------------------------------------------
(* C19: for a GitSegment with any branch-name length, any staged, unstaged  *)
(* and conflicted flags and any mode, and for every max_size, the debug     *)
(* assertion of render_at_size holds: the grapheme count of the text equals *)
(* get_actual_width_when_under(max_size), and the text is the full form at  *)
(* or above the unconstrained length, the ellipsized-branch form at or      *)
(* above the comfortable length, the glyph-plus-status form at or above     *)
(* status length + 4, the glyph-only form at or above 3, empty below 3.     *)
C19_GitRenderForms ==
    (probe.op = "render_at_size" /\ segments[1].kind = "Git")
        => LET self == segments[1]
               max_size == probe.max_size
               text == probe.result.text
               symbols == GitSegment_render_status_symbols(self)
               unconstrained == GitSegment_get_unconstrained_total_len(self)
               comfortable == GitSegment_get_min_len_with_branch_name(self)
               glyph == <<" ", GIT_SYMBOL>>
           IN /\ Len(text) = GitSegment_get_actual_width_when_under(self, max_size)
              /\ max_size >= unconstrained
                    => text = glyph \o <<" ">> \o self.branch_name \o symbols
                                \o <<" ">>
              /\ (comfortable <= max_size /\ max_size < unconstrained)
                    => /\ Len(text) = max_size
                       /\ \E n \in 1..(self.branch_name_len - 1) :
                             text = glyph \o <<" ">> \o Take(self.branch_name, n)
                                      \o <<".", ".", ".">> \o symbols \o <<" ">>
              /\ (self.status_str_len + 4 <= max_size /\ max_size < comfortable)
                    => /\ text = glyph \o symbols \o <<" ">>
                       /\ Len(text) = IF self.status_str_len = 0 THEN 3
                                      ELSE self.status_str_len + 4
              /\ (3 <= max_size /\ max_size < self.status_str_len + 4
                    /\ max_size < comfortable)
                    => text = glyph \o <<" ">>
              /\ max_size < 3 => text = <<>>

\* a segment with both file changes and a mode, rendered with its branch
\* name ellipsized
C19_Witness ==
    /\ probe.op = "render_at_size"
    /\ segments[1].kind = "Git"
    /\ segments[1].status.tag = "Changes"
    /\ segments[1].status.staged
    /\ segments[1].mode # "Clean"
    /\ probe.max_size >= GitSegment_get_min_len_with_branch_name(segments[1])
    /\ probe.max_size < GitSegment_get_unconstrained_total_len(segments[1])
    /\ Len(probe.result.text) = probe.max_size

-----------------------------------------------------------------------------
(* Quantities of C20 *)

\* the last n graphemes of a text
LastGraphemes(text, n) == SubSeq(text, Len(text) - n + 1, Len(text))

\* the full path: the prefix character, then every component behind a
\* separator, between two spaces
FullPath(self) ==
    <<" ", IF self.path_type = "RelativeToHome" THEN "~" ELSE "/">>
        \o Flatten([i \in 1..Len(self.path_segments) |->
                        <<" ", PATH_SEPARATOR, " ">> \o self.path_segments[i]])
        \o <<" ">>

PathRendered == probe.op = "render_at_size" /\ segments[1].kind = "Path"

\* the debug assertion and the two forms from MIN_PATH_SIZE upwards
PathFormsFromMin ==
    LET self == segments[1]
        max_size == probe.max_size
        text == probe.result.text
    IN /\ Len(text) = PathSegment_get_actual_width_when_under(self, max_size)
       /\ max_size >= self.preferred_width
             => /\ text = FullPath(self)
                /\ Len(text) = self.preferred_width
       /\ (MIN_PATH_SIZE <= max_size /\ max_size < self.preferred_width)
             => /\ text = <<" ", ".", ".", ".">>
                            \o LastGraphemes(FullPath(self), max_size - 4)
                /\ Len(text) = max_size

(* C20 as stated: the debug assertion of PathSegment::render_at_size holds, *)
(* the full path is rendered at or above the preferred width, " ..." and    *)
(* the trailing graphemes from MIN_PATH_SIZE up to the preferred width, and *)
(* below MIN_PATH_SIZE the text is a single space.                          *)
C20_BelowMinIsSingleSpace ==
    PathRendered
        => /\ PathFormsFromMin
           /\ probe.max_size < MIN_PATH_SIZE => probe.result.text = <<" ">>

(* C20, amended: for a PathSegment with any list of path components and for *)
(* every max_size the debug assertion of render_at_size holds: at or above  *)
(* the preferred width the full path is rendered with preferred_width       *)
(* graphemes, for MIN_PATH_SIZE <= max_size < preferred_width the text is   *)
(* " ..." followed by the trailing graphemes of the path and has exactly    *)
(* max_size graphemes, and below both MIN_PATH_SIZE and the preferred width *)
(* the text is a single space.                                              *)
C20_PathRenderForms ==
    PathRendered
        => /\ PathFormsFromMin
           /\ (probe.max_size < MIN_PATH_SIZE
                 /\ probe.max_size < segments[1].preferred_width)
                 => probe.result.text = <<" ">>

\* a path of two components rendered below its preferred width with the
\* separator still in the text
C20_Witness ==
    /\ PathRendered
    /\ Len(segments[1].path_segments) = 2
    /\ probe.max_size >= MIN_PATH_SIZE
    /\ probe.max_size < segments[1].preferred_width
    /\ \E k \in 1..Len(probe.result.text) : probe.result.text[k] = PATH_SEPARATOR
    /\ Len(probe.result.text) = probe.max_size

-----------------------------------------------------------------------------
(* C21: layout_segments never aborts: for every segment list, the empty     *)
(* list of four absent providers included, and every terminal width, 0      *)
(* included, it returns SingleLine, SplitLine or OverflowLine and does not  *)
(* panic.                                                                   *)
C21_LayoutNeverAborts ==
    /\ pc # "panic"
    /\ Returned => line_type \in {"SingleLine", "SplitLine", "OverflowLine"}

-----------------------------------------------------------------------------
(* Quantities of C22 *)

\* the visible characters of a text: its graphemes without the escape
\* sequences "\x1b[{}m" (from ESC up to the closing m)
RECURSIVE VisibleFrom(_, _)
VisibleFrom(text, in_escape) ==
    IF text = <<>> THEN 0
    ELSE IF in_escape
         THEN VisibleFrom(Tail(text), Head(text) # "m")
         ELSE IF Head(text) = "ESC"
              THEN VisibleFrom(Tail(text), TRUE)
              ELSE 1 + VisibleFrom(Tail(text), FALSE)

VisibleCount(text) == VisibleFrom(text, FALSE)

\* the visible width of the first output line: every segment text and the
\* separator glyph behind it
FirstLineWidth ==
    SumSeq([i \in 1..Len(rendered) |-> VisibleCount(rendered[i].text) + 1])

\* main has rendered the segments of a SingleLine or SplitLine layout
RenderedLayout ==
    /\ pc \in {"emit", "exit"}
    /\ InMain
    /\ line_type \in {"SingleLine", "SplitLine"}

(* C22: for every layout classified SingleLine or SplitLine built from      *)
(* Status, Jobs, Path and Git segments, each segment's rendered text has    *)
(* exactly as many visible characters as its allocated width, so the first  *)
(* output line (segment texts plus one separator glyph per segment) is no   *)
(* wider than the terminal width passed to the layout.                      *)
C22_RenderedTextsFillAllocation ==
    RenderedLayout
        => /\ Len(rendered) = Len(layout)
           /\ \A i \in 1..Len(rendered) :
                 VisibleCount(rendered[i].text) = layout[i]
           /\ FirstLineWidth <= term_width

====
